---- MODULE Spec2Model ----
(***************************************************************************)
(* Model of timelapse.py: the device resolver (resolve_device) and the     *)
(* capture session run by the `start` command (directory creation, device  *)
(* resolution, SIGINT handler, device open, capture loop, finally block).  *)
(* Text is modelled as sequences of one-character strings so that int(),   *)
(* str(), lower(), substring search and the :06d format are computed.      *)
(***************************************************************************)
EXTENDS Integers, Sequences, FiniteSets, TLC

\* ------------------------------------------------------------------ bounds
MaxCatalogLen == 2
MaxReads == 5
MaxInterrupts == 2

\* ------------------------------------------------------------ text helpers
Digit == {"0", "1", "2", "3", "4", "5", "6", "7", "8", "9"}

DigitVal(c) ==
  CASE c = "0" -> 0 [] c = "1" -> 1 [] c = "2" -> 2 [] c = "3" -> 3
    [] c = "4" -> 4 [] c = "5" -> 5 [] c = "6" -> 6 [] c = "7" -> 7
    [] c = "8" -> 8 [] c = "9" -> 9

DigitChar(d) ==
  CASE d = 0 -> "0" [] d = 1 -> "1" [] d = 2 -> "2" [] d = 3 -> "3"
    [] d = 4 -> "4" [] d = 5 -> "5" [] d = 6 -> "6" [] d = 7 -> "7"
    [] d = 8 -> "8" [] d = 9 -> "9"

\* decimal digits of a natural number, most significant first
RECURSIVE NatDigits(_)
NatDigits(n) ==
  IF n < 10 THEN <<DigitChar(n)>>
  ELSE Append(NatDigits(n \div 10), DigitChar(n % 10))

\* str(n) of a Python int
Str(n) == IF n < 0 THEN <<"-">> \o NatDigits(0 - n) ELSE NatDigits(n)

\* str.strip() restricted to the blank character
RECURSIVE LStrip(_)
LStrip(s) ==
  IF s # <<>> /\ Head(s) = " " THEN LStrip(Tail(s)) ELSE s

RECURSIVE RStrip(_)
RStrip(s) ==
  IF s # <<>> /\ s[Len(s)] = " " THEN RStrip(SubSeq(s, 1, Len(s) - 1)) ELSE s

Strip(s) == RStrip(LStrip(s))

\* the digit groups accepted by int(): digits, single underscores between them
IsIntBody(b) ==
  /\ b # <<>>
  /\ \A k \in 1..Len(b) : b[k] \in Digit \cup {"_"}
  /\ b[1] \in Digit
  /\ b[Len(b)] \in Digit
  /\ \A k \in 1..(Len(b) - 1) : ~(b[k] = "_" /\ b[k + 1] = "_")

RECURSIVE BodyVal(_, _)
BodyVal(b, acc) ==
  IF b = <<>> THEN acc
  ELSE IF Head(b) = "_" THEN BodyVal(Tail(b), acc)
  ELSE BodyVal(Tail(b), 10 * acc + DigitVal(Head(b)))

\* int(device_input): [ok |-> TRUE, val |-> n], or ok = FALSE for ValueError
ParseInt(s) ==
  LET t == Strip(s)
      signed == t # <<>> /\ Head(t) \in {"+", "-"}
      body == IF signed THEN Tail(t) ELSE t
  IN IF IsIntBody(body)
     THEN [ok |-> TRUE,
           val |-> IF signed /\ Head(t) = "-"
                   THEN 0 - BodyVal(body, 0) ELSE BodyVal(body, 0)]
     ELSE [ok |-> FALSE, val |-> 0]

\* str.lower() on the letters the model uses
LowerChar(c) ==
  CASE c = "A" -> "a" [] c = "B" -> "b" [] c = "N" -> "n" [] OTHER -> c

Lower(s) == [k \in 1..Len(s) |-> LowerChar(s[k])]

\* Python's `needle in hay` for strings
Contains(hay, needle) ==
  \E k \in 0..(Len(hay) - Len(needle)) :
    SubSeq(hay, k + 1, k + Len(needle)) = needle

\* (the format spec d, without the 06)
ZeroPad_None(ds, width) == ds

\* zero-padded field of the format spec 06d, for n >= 0
RECURSIVE ZeroPad(_, _)
ZeroPad(ds, width) ==
  IF Len(ds) >= width THEN ds ELSE ZeroPad(<<"0">> \o ds, width)

PadWidth == 6

\* f"frame_{frame_count:06d}.jpg"
Filename(n) ==
  <<"f", "r", "a", "m", "e", "_">> \o ZeroPad(NatDigits(n), PadWidth)
    \o <<".", "j", "p", "g">>

\* code points of the characters that occur in file names
CharCode(c) ==
  CASE c = "." -> 46 [] c \in Digit -> 48 + DigitVal(c) [] c = "_" -> 95
    [] c = "a" -> 97 [] c = "e" -> 101 [] c = "f" -> 102 [] c = "g" -> 103
    [] c = "j" -> 106 [] c = "m" -> 109 [] c = "p" -> 112 [] c = "r" -> 114

\* strict lexicographic order of two strings (the order of sorted listings)
RECURSIVE LexLess(_, _)
LexLess(a, b) ==
  IF b = <<>> THEN FALSE
  ELSE IF a = <<>> THEN TRUE
  ELSE IF Head(a) # Head(b) THEN CharCode(Head(a)) < CharCode(Head(b))
  ELSE LexLess(Tail(a), Tail(b))

\* ---------------------------------------------------------- resolve_device
\* first camera whose device id equals int_value (0 when there is none)
RECURSIVE IdMatchPos(_, _, _)
IdMatchPos(cameras, int_value, k) ==
  IF k > Len(cameras) THEN 0
  ELSE IF cameras[k].index = int_value THEN k
  ELSE IdMatchPos(cameras, int_value, k + 1)

\* (the two .lower() calls left out)
RECURSIVE NameMatchPos_CaseSensitive(_, _, _)
NameMatchPos_CaseSensitive(cameras, device_input, k) ==
  IF k > Len(cameras) THEN 0
  ELSE IF cameras[k].name # <<>> /\ Contains(cameras[k].name, device_input)
       THEN k
  ELSE NameMatchPos_CaseSensitive(cameras, device_input, k + 1)

\* first camera with a non-empty name containing the input, ignoring case
RECURSIVE NameMatchPos(_, _, _)
NameMatchPos(cameras, device_input, k) ==
  IF k > Len(cameras) THEN 0
  ELSE IF cameras[k].name # <<>>
          /\ Contains(Lower(cameras[k].name), Lower(device_input)) THEN k
  ELSE NameMatchPos(cameras, device_input, k + 1)

Found(i) == [ok |-> TRUE, index |-> i, error |-> "none", message |-> <<>>]

Failed(e, m) == [ok |-> FALSE, index |-> 0 - 1, error |-> e, message |-> m]

NotFoundById(device_input) ==
  Failed("DeviceNotFound",
         <<"Device '">> \o device_input \o <<"' not found.">>)

NotFoundByName(device_input) ==
  Failed("DeviceNotFound",
         <<"No camera found matching '">> \o device_input \o <<"'.">>)

\* the try branch: int(device_input) succeeded with int_value
\* (positional lookup before the device id lookup)
ResolveInt_PositionFirst(cameras, device_input, int_value) ==
  LET byId == IdMatchPos(cameras, int_value, 1)
  IN IF 0 <= int_value /\ int_value < Len(cameras)
     THEN Found(cameras[int_value + 1].index)
     ELSE IF byId # 0 THEN Found(cameras[byId].index)
     ELSE NotFoundById(device_input)

\* (positions counted from 1 instead of 0)
ResolveInt_OneBased(cameras, device_input, int_value) ==
  LET byId == IdMatchPos(cameras, int_value, 1)
  IN IF byId # 0 THEN Found(cameras[byId].index)
     ELSE IF 0 < int_value /\ int_value <= Len(cameras)
          THEN Found(cameras[int_value].index)
     ELSE NotFoundById(device_input)

\* (the lower bound 0 <= left out: a negative index counts from the end)
ResolveInt_NegativeFromEnd(cameras, device_input, int_value) ==
  LET byId == IdMatchPos(cameras, int_value, 1)
  IN IF byId # 0 THEN Found(cameras[byId].index)
     ELSE IF 0 <= int_value /\ int_value < Len(cameras)
          THEN Found(cameras[int_value + 1].index)
     ELSE IF int_value < 0 /\ 0 - Len(cameras) <= int_value
          THEN Found(cameras[Len(cameras) + int_value + 1].index)
     ELSE NotFoundById(device_input)

ResolveInt(cameras, device_input, int_value) ==
  LET byId == IdMatchPos(cameras, int_value, 1)
  IN IF byId # 0 THEN Found(cameras[byId].index)
     ELSE IF 0 <= int_value /\ int_value < Len(cameras)
          THEN Found(cameras[int_value + 1].index)
     ELSE NotFoundById(device_input)

\* the except ValueError branch
ResolveName(cameras, device_input) ==
  LET byName == NameMatchPos(cameras, device_input, 1)
  IN IF byName # 0 THEN Found(cameras[byName].index)
     ELSE NotFoundByName(device_input)

\* (the `if not cameras` check left out)
resolve_device_NoEmptyCheck(cameras, device_input) ==
  LET parsed == ParseInt(device_input)
  IN IF parsed.ok THEN ResolveInt(cameras, device_input, parsed.val)
     ELSE ResolveName(cameras, device_input)

resolve_device(cameras, device_input) ==
  IF cameras = <<>> THEN Failed("NoDevicesFound", <<"No cameras found.">>)
  ELSE LET parsed == ParseInt(device_input)
       IN IF parsed.ok THEN ResolveInt(cameras, device_input, parsed.val)
          ELSE ResolveName(cameras, device_input)

\* ------------------------------------------------------------------ inputs
Camera(i, n) == [index |-> i, name |-> n]

DeviceIds == {0, 1, 55, 1200}

Names == {<<>>, <<"A", "n">>, <<"b", "3">>}

Descriptors == {Camera(i, n) : i \in DeviceIds, n \in Names}

RECURSIVE SeqsUpTo(_, _)
SeqsUpTo(S, n) ==
  IF n = 0 THEN {<<>>}
  ELSE LET shorter == SeqsUpTo(S, n - 1)
       IN shorter \cup {Append(q, x) : q \in shorter, x \in S}

Catalogs == SeqsUpTo(Descriptors, MaxCatalogLen)

IntSelectors == {Str(n) : n \in {0 - 1, 0, 1, 2, 3, 55, 1200}}

Selectors ==
  IntSelectors \cup
  {<<>>, <<" ", "1">>, <<"+", "1">>, <<"0", "1">>, <<"1", "_", "0">>,
   <<"1", "_">>, <<"-">>, <<"a", "n">>, <<"N">>, <<"b">>, <<"x">>}

\* the catalogs, selectors and intervals a capture session is run with
SessionCatalogs ==
  {<<>>, <<Camera(1200, <<"A", "n">>), Camera(55, <<"b">>)>>}

SessionSelectors == {<<"0">>, <<"5", "5">>, <<"7">>, <<"x">>}

Intervals == {0 - 1, 0, 1}

\* ------------------------------------------------------------------- state
VARIABLES
  pc,                \* position of the process in start()
  cameras,           \* what enumerate_cameras() returns
  device,            \* the --device option
  interval,          \* the --interval option
  dir_created,       \* output_path exists
  device_index,      \* result of resolve_device, -1 before
  error,             \* kind of the ClickException / early exit, "none"
  error_message,     \* text of the ClickException
  handler_installed, \* signal.signal(SIGINT, signal_handler) has run
  stop_recording,    \* stop_recording['flag']
  cap,               \* "none", "opened", "failed", "released"
  frame_count,
  ret,               \* result of the last cap.read()
  files,             \* names written by cv2.imwrite, in order
  live,              \* frame count shown by the live table, -1 before
  output,            \* lines echoed to the terminal, in order
  exit_code,         \* -1 while running
  raised,            \* an exception is propagating out of the try block
  termination,       \* why the run ended, "None" while running
  reads,             \* history: number of cap.read() calls
  releases,          \* history: number of cap.release() calls
  read_after_release, \* history: cap.read() was called after cap.release()
  interrupts,        \* history: number of SIGINTs delivered
  stop_at,           \* history: Len(files) when the flag became true
  stop_pc,           \* history: pc when the flag became true
  fmt_i, fmt_j,      \* frame indices given to the file name format
  name_i, name_j     \* the file names formatted for them

vars ==
  <<pc, cameras, device, interval, dir_created, device_index, error,
    error_message, handler_installed, stop_recording, cap, frame_count, ret,
    files, live, output, exit_code, raised, termination, reads, releases,
    read_after_release, interrupts, stop_at, stop_pc, fmt_i, fmt_j, name_i,
    name_j>>

inputVars == <<cameras, device, interval>>

fmtVars == <<fmt_i, fmt_j, name_i, name_j>>

historyVars == <<reads, releases, read_after_release, interrupts>>

stopVars == <<stop_recording, stop_at, stop_pc>>

Line(t, n) == [text |-> t, n |-> n]

\* the process before the first statement of start()
Fresh ==
  /\ pc = "mkdir"
  /\ dir_created = FALSE
  /\ device_index = 0 - 1
  /\ error = "none"
  /\ error_message = <<>>
  /\ handler_installed = FALSE
  /\ stop_recording = FALSE
  /\ cap = "none"
  /\ frame_count = 0
  /\ ret = TRUE
  /\ files = <<>>
  /\ live = 0 - 1
  /\ output = <<>>
  /\ exit_code = 0 - 1
  /\ raised = FALSE
  /\ termination = "None"
  /\ reads = 0
  /\ releases = 0
  /\ read_after_release = FALSE
  /\ interrupts = 0
  /\ stop_at = 0 - 1
  /\ stop_pc = "none"

NoFormat ==
  /\ fmt_i = 0
  /\ fmt_j = 0
  /\ name_i = <<>>
  /\ name_j = <<>>

Init ==
  /\ cameras \in SessionCatalogs
  /\ device \in SessionSelectors
  /\ interval \in Intervals
  /\ Fresh
  /\ NoFormat

\* ------------------------------------------------------------ start(): set-up
\* output_path.mkdir(parents=True, exist_ok=True)
Mkdir ==
  /\ pc = "mkdir"
  /\ dir_created' = TRUE
  /\ pc' = "resolve"
  /\ UNCHANGED <<inputVars, fmtVars, historyVars, stopVars, device_index,
                 error, error_message, handler_installed, cap, frame_count,
                 ret, files, live, output, exit_code, raised, termination>>

\* device_index = resolve_device(device); a ClickException ends the process
\* with the message on the terminal and exit code 1
StartResolve ==
  /\ pc = "resolve"
  /\ LET r == resolve_device(cameras, device)
     IN IF r.ok
        THEN /\ device_index' = r.index
             /\ pc' = "signal"
             /\ UNCHANGED <<error, error_message, output, exit_code,
                            termination>>
        ELSE /\ error' = r.error
             /\ error_message' = r.message
             /\ output' = Append(output, Line("Error", 0 - 1))
             /\ exit_code' = 1
             /\ termination' = r.error
             /\ pc' = "done"
             /\ UNCHANGED device_index
  /\ UNCHANGED <<inputVars, fmtVars, historyVars, stopVars, dir_created,
                 handler_installed, cap, frame_count, ret, files, live,
                 raised>>

\* stop_recording = {'flag': False}; signal.signal(SIGINT, signal_handler)
InstallHandler ==
  /\ pc = "signal"
  /\ stop_recording' = FALSE
  /\ handler_installed' = TRUE
  /\ pc' = "open"
  /\ UNCHANGED <<inputVars, fmtVars, historyVars, stop_at, stop_pc,
                 dir_created, device_index, error, error_message, cap,
                 frame_count, ret, files, live, output, exit_code, raised,
                 termination>>

\* cap = cv2.VideoCapture(device_index): the device opens or it does not
Open ==
  /\ pc = "open"
  /\ \E opened \in BOOLEAN : cap' = IF opened THEN "opened" ELSE "failed"
  /\ pc' = "check_open"
  /\ UNCHANGED <<inputVars, fmtVars, historyVars, stopVars, dir_created,
                 device_index, error, error_message, handler_installed,
                 frame_count, ret, files, live, output, exit_code, raised,
                 termination>>

\* (the sys.exit(1) left out: the error is echoed and the run goes on)
CheckOpen_NoExit ==
  /\ pc = "check_open"
  /\ IF cap = "opened"
     THEN /\ UNCHANGED <<error, output>>
     ELSE /\ error' = "DeviceOpenFailure"
          /\ output' = Append(output, Line("Error: Could not open device",
                                           device_index))
  /\ pc' = "banner"
  /\ UNCHANGED <<inputVars, fmtVars, historyVars, stopVars, dir_created,
                 device_index, error_message, handler_installed, cap,
                 frame_count, ret, files, live, raised, exit_code,
                 termination>>

\* if not cap.isOpened(): echo the error; sys.exit(1)
CheckOpen ==
  /\ pc = "check_open"
  /\ IF cap = "opened"
     THEN /\ pc' = "banner"
          /\ UNCHANGED <<error, output, exit_code, termination>>
     ELSE /\ error' = "DeviceOpenFailure"
          /\ output' = Append(output, Line("Error: Could not open device",
                                           device_index))
          /\ exit_code' = 1
          /\ termination' = "DeviceOpenFailure"
          /\ pc' = "done"
  /\ UNCHANGED <<inputVars, fmtVars, historyVars, stopVars, dir_created,
                 device_index, error_message, handler_installed, cap,
                 frame_count, ret, files, live, raised>>

\* (the flag initialised here, after the device was opened)
Banner_ResetsFlag ==
  /\ pc = "banner"
  /\ output' = Append(output, Line("Recording from device", device_index))
  /\ frame_count' = 0
  /\ live' = 0
  /\ stop_recording' = FALSE
  /\ pc' = "loop_top"
  /\ UNCHANGED <<inputVars, fmtVars, historyVars, stop_at, stop_pc,
                 dir_created, device_index, error, error_message,
                 handler_installed, cap, ret, files, exit_code, raised,
                 termination>>

\* the start-up messages, frame_count = 0, and the live table's first render
Banner ==
  /\ pc = "banner"
  /\ output' = Append(output, Line("Recording from device", device_index))
  /\ frame_count' = 0
  /\ live' = 0
  /\ pc' = "loop_top"
  /\ UNCHANGED <<inputVars, fmtVars, historyVars, stopVars, dir_created,
                 device_index, error, error_message, handler_installed, cap,
                 ret, files, exit_code, raised, termination>>

\* ------------------------------------------------------ start(): capture loop
setupVars ==
  <<dir_created, device_index, error, error_message, handler_installed>>

\* (while True: the flag is never looked at)
LoopTop_IgnoresFlag ==
  /\ pc = "loop_top"
  /\ pc' = "read"
  /\ UNCHANGED <<inputVars, fmtVars, historyVars, stopVars, setupVars, cap,
                 frame_count, ret, files, live, output, exit_code, raised,
                 termination>>

\* (a set flag makes the loop wait for it to clear instead of leaving)
LoopTop_SpinsOnStop ==
  /\ pc = "loop_top"
  /\ pc' = IF stop_recording THEN "loop_top" ELSE "read"
  /\ UNCHANGED <<inputVars, fmtVars, historyVars, stopVars, setupVars, cap,
                 frame_count, ret, files, live, output, exit_code, raised,
                 termination>>

\* while not stop_recording['flag']:
LoopTop ==
  /\ pc = "loop_top"
  /\ IF stop_recording
     THEN /\ termination' = "OperatorStop"
          /\ pc' = "release"
     ELSE /\ pc' = "read"
          /\ UNCHANGED termination
  /\ UNCHANGED <<inputVars, fmtVars, historyVars, stopVars, setupVars, cap,
                 frame_count, ret, files, live, output, exit_code, raised>>

\* ret, frame = cap.read(): the device delivers a frame or reports failure;
\* after MaxReads frames the device fails
Read ==
  /\ pc = "read"
  /\ \E ok \in (IF reads < MaxReads THEN BOOLEAN ELSE {FALSE}) : ret' = ok
  /\ reads' = reads + 1
  /\ read_after_release' = (read_after_release \/ cap = "released")
  /\ pc' = "check_ret"
  /\ UNCHANGED <<inputVars, fmtVars, stopVars, setupVars, releases,
                 interrupts, cap, frame_count, files, live, output,
                 exit_code, raised, termination>>

\* (sys.exit-like exit on a failed read that bypasses the finally block)
CheckRet_NoFinally ==
  /\ pc = "check_ret"
  /\ IF ret
     THEN /\ pc' = "imwrite"
          /\ UNCHANGED <<output, termination, exit_code>>
     ELSE /\ output' = Append(output, Line("Error: Failed to capture frame",
                                           0 - 1))
          /\ termination' = "CaptureFailure"
          /\ exit_code' = 1
          /\ pc' = "done"
  /\ UNCHANGED <<inputVars, fmtVars, historyVars, stopVars, setupVars, cap,
                 frame_count, ret, files, live, raised>>

\* (a failed read is passed over in silence when a stop is pending)
CheckRet_StopWins ==
  /\ pc = "check_ret"
  /\ IF ret
     THEN /\ pc' = "imwrite"
          /\ UNCHANGED <<output, termination>>
     ELSE IF stop_recording
     THEN /\ termination' = "OperatorStop"
          /\ pc' = "release"
          /\ UNCHANGED output
     ELSE /\ output' = Append(output, Line("Error: Failed to capture frame",
                                           0 - 1))
          /\ termination' = "CaptureFailure"
          /\ pc' = "release"
  /\ UNCHANGED <<inputVars, fmtVars, historyVars, stopVars, setupVars, cap,
                 frame_count, ret, files, live, exit_code, raised>>

\* if not ret: echo the error; break
CheckRet ==
  /\ pc = "check_ret"
  /\ IF ret
     THEN /\ pc' = "imwrite"
          /\ UNCHANGED <<output, termination>>
     ELSE /\ output' = Append(output, Line("Error: Failed to capture frame",
                                           0 - 1))
          /\ termination' = "CaptureFailure"
          /\ pc' = "release"
  /\ UNCHANGED <<inputVars, fmtVars, historyVars, stopVars, setupVars, cap,
                 frame_count, ret, files, live, exit_code, raised>>

\* filename = output_path / f"frame_{frame_count:06d}.jpg"; cv2.imwrite(...)
\* the frame is written, or the call raises
Imwrite ==
  /\ pc = "imwrite"
  /\ \/ /\ files' = Append(files, Filename(frame_count))
        /\ pc' = "incr"
        /\ UNCHANGED <<raised, termination>>
     \/ /\ raised' = TRUE
        /\ termination' = "Error"
        /\ pc' = "release"
        /\ UNCHANGED files
  /\ UNCHANGED <<inputVars, fmtVars, historyVars, stopVars, setupVars, cap,
                 frame_count, ret, live, output, exit_code>>

\* (the increment left out)
Incr_Forgotten ==
  /\ pc = "incr"
  /\ pc' = "update"
  /\ UNCHANGED <<inputVars, fmtVars, historyVars, stopVars, setupVars, cap,
                 frame_count, ret, files, live, output, exit_code, raised,
                 termination>>

\* frame_count += 1
Incr ==
  /\ pc = "incr"
  /\ frame_count' = frame_count + 1
  /\ pc' = "update"
  /\ UNCHANGED <<inputVars, fmtVars, historyVars, stopVars, setupVars, cap,
                 ret, files, live, output, exit_code, raised, termination>>

\* live.update(generate_table()): the table shows frame_count, or the call
\* raises
Update ==
  /\ pc = "update"
  /\ \/ /\ live' = frame_count
        /\ pc' = "sleep"
        /\ UNCHANGED <<raised, termination>>
     \/ /\ raised' = TRUE
        /\ termination' = "Error"
        /\ pc' = "release"
        /\ UNCHANGED live
  /\ UNCHANGED <<inputVars, fmtVars, historyVars, stopVars, setupVars, cap,
                 frame_count, ret, files, output, exit_code>>

\* time.sleep(interval): ValueError for a negative interval
Sleep ==
  /\ pc = "sleep"
  /\ IF interval < 0
     THEN /\ raised' = TRUE
          /\ termination' = "Error"
          /\ pc' = "release"
     ELSE /\ pc' = "loop_top"
          /\ UNCHANGED <<raised, termination>>
  /\ UNCHANGED <<inputVars, fmtVars, historyVars, stopVars, setupVars, cap,
                 frame_count, ret, files, live, output, exit_code>>

\* (the finally block without cap.release())
Release_Forgotten ==
  /\ pc = "release"
  /\ pc' = "report"
  /\ UNCHANGED <<inputVars, fmtVars, historyVars, stopVars, setupVars, cap,
                 frame_count, ret, files, live, output, exit_code, raised,
                 termination>>

\* finally: cap.release()
Release ==
  /\ pc = "release"
  /\ cap' = "released"
  /\ releases' = releases + 1
  /\ pc' = "report"
  /\ UNCHANGED <<inputVars, fmtVars, stopVars, setupVars, reads,
                 read_after_release, interrupts, frame_count, ret, files,
                 live, output, exit_code, raised, termination>>

\* (the number of read attempts reported instead of the frames saved)
Report_CountsReads ==
  /\ pc = "report"
  /\ output' = Append(output, Line("Recording stopped. Captured", reads))
  /\ exit_code' = IF raised THEN 1 ELSE 0
  /\ pc' = "done"
  /\ UNCHANGED <<inputVars, fmtVars, historyVars, stopVars, setupVars, cap,
                 frame_count, ret, files, live, raised, termination>>

\* (the count echoed after the try statement instead of inside finally)
Report_SilentOnError ==
  /\ pc = "report"
  /\ output' = IF raised THEN output
               ELSE Append(output, Line("Recording stopped. Captured",
                                        frame_count))
  /\ exit_code' = IF raised THEN 1 ELSE 0
  /\ pc' = "done"
  /\ UNCHANGED <<inputVars, fmtVars, historyVars, stopVars, setupVars, cap,
                 frame_count, ret, files, live, raised, termination>>

\* finally: echo the frame count; then start() returns (exit code 0) or the
\* pending exception ends the process (exit code 1)
Report ==
  /\ pc = "report"
  /\ output' = Append(output, Line("Recording stopped. Captured",
                                   frame_count))
  /\ exit_code' = IF raised THEN 1 ELSE 0
  /\ pc' = "done"
  /\ UNCHANGED <<inputVars, fmtVars, historyVars, stopVars, setupVars, cap,
                 frame_count, ret, files, live, raised, termination>>

\* ------------------------------------------------------------------ SIGINT
\* (the flag toggled instead of set)
signal_handler_Toggle ==
  /\ handler_installed
  /\ pc # "done"
  /\ interrupts < MaxInterrupts
  /\ output' = Append(output, Line("Stopping recording...", 0 - 1))
  /\ stop_recording' = ~stop_recording
  /\ stop_at' = IF stop_recording THEN stop_at ELSE Len(files)
  /\ stop_pc' = IF stop_recording THEN stop_pc ELSE pc
  /\ interrupts' = interrupts + 1
  /\ UNCHANGED <<pc, inputVars, fmtVars, setupVars, reads, releases,
                 read_after_release, cap, frame_count, ret, files, live,
                 exit_code, raised, termination>>

\* (the handler also releases the device)
signal_handler_ReleasesCap ==
  /\ handler_installed
  /\ pc # "done"
  /\ interrupts < MaxInterrupts
  /\ output' = Append(output, Line("Stopping recording...", 0 - 1))
  /\ stop_recording' = TRUE
  /\ stop_at' = IF stop_recording THEN stop_at ELSE Len(files)
  /\ stop_pc' = IF stop_recording THEN stop_pc ELSE pc
  /\ interrupts' = interrupts + 1
  /\ cap' = IF cap = "opened" THEN "released" ELSE cap
  /\ UNCHANGED <<pc, inputVars, fmtVars, setupVars, reads, releases,
                 read_after_release, frame_count, ret, files, live,
                 exit_code, raised, termination>>

\* signal_handler: echo "Stopping recording..."; stop_recording['flag'] = True
signal_handler ==
  /\ handler_installed
  /\ pc # "done"
  /\ interrupts < MaxInterrupts
  /\ output' = Append(output, Line("Stopping recording...", 0 - 1))
  /\ stop_recording' = TRUE
  /\ stop_at' = IF stop_recording THEN stop_at ELSE Len(files)
  /\ stop_pc' = IF stop_recording THEN stop_pc ELSE pc
  /\ interrupts' = interrupts + 1
  /\ UNCHANGED <<pc, inputVars, fmtVars, setupVars, reads, releases,
                 read_after_release, cap, frame_count, ret, files, live,
                 exit_code, raised, termination>>

\* SIGINT before the handler is installed: KeyboardInterrupt, which click
\* turns into "Aborted!" and exit code 1
DefaultInterrupt ==
  /\ ~handler_installed
  /\ pc # "done"
  /\ interrupts < MaxInterrupts
  /\ interrupts' = interrupts + 1
  /\ output' = Append(output, Line("Aborted!", 0 - 1))
  /\ exit_code' = 1
  /\ termination' = "Aborted"
  /\ pc' = "done"
  /\ UNCHANGED <<inputVars, fmtVars, stopVars, setupVars, reads, releases,
                 read_after_release, cap, frame_count, ret, files, live,
                 raised>>

Next ==
  \/ Mkdir
  \/ StartResolve
  \/ InstallHandler
  \/ Open
  \/ CheckOpen
  \/ Banner
  \/ LoopTop
  \/ Read
  \/ CheckRet
  \/ Imwrite
  \/ Incr
  \/ Update
  \/ Sleep
  \/ Release
  \/ Report
  \/ signal_handler
  \/ DefaultInterrupt

Spec == Init /\ [][Next]_vars

\* ------------------------------------------- resolve_device on many inputs
InitResolve ==
  /\ cameras \in Catalogs
  /\ device \in Selectors
  /\ interval = 1
  /\ Fresh
  /\ NoFormat

NextResolve ==
  \/ Mkdir
  \/ StartResolve

SpecResolve == InitResolve /\ [][NextResolve]_vars

\* --------------------------------------------- the file name format alone
SampleIndices ==
  {0, 1, 2, 9, 10, 11, 99, 100, 999, 1000, 9999, 10000, 99999, 100000,
   999998, 999999, 1000000}

InitFormat ==
  /\ cameras = <<>>
  /\ device = <<"0">>
  /\ interval = 1
  /\ Fresh
  /\ fmt_i \in SampleIndices
  /\ fmt_j \in SampleIndices
  /\ name_i = <<>>
  /\ name_j = <<>>

FormatNames ==
  /\ name_i = <<>>
  /\ name_i' = Filename(fmt_i)
  /\ name_j' = Filename(fmt_j)
  /\ UNCHANGED <<pc, inputVars, historyVars, stopVars, setupVars, cap,
                 frame_count, ret, files, live, output, exit_code, raised,
                 termination, fmt_i, fmt_j>>

SpecFormat == InitFormat /\ [][FormatNames]_vars

\* ================================================================= claims
\* resolve_device has returned or raised
Resolved == pc \notin {"mkdir", "resolve"}

\* C8: for a non-empty catalog and a device id d in it, resolving the decimal
\* string of d returns d, whatever positional lookup of d would give.
C8_DeviceIdWins ==
  Resolved =>
    \A k \in 1..Len(cameras) :
      device = Str(cameras[k].index) =>
        error = "none" /\ device_index = cameras[k].index

\* d = 1 is also a position, and position 1 holds another device
C8_Witness ==
  /\ Resolved
  /\ Len(cameras) = 2
  /\ cameras[1].index = 1
  /\ cameras[2].index = 0
  /\ device = Str(1)
  /\ device_index = 1

\* C9: an integer selector n that is no device id and has
\* 0 <= n < len(catalog) resolves to the device id at position n.
C9_PositionalFallback ==
  Resolved =>
    LET parsed == ParseInt(device)
    IN (/\ parsed.ok
        /\ \A k \in 1..Len(cameras) : cameras[k].index # parsed.val
        /\ 0 <= parsed.val
        /\ parsed.val < Len(cameras))
       => error = "none" /\ device_index = cameras[parsed.val + 1].index

\* catalog [1200, 55] and selector "0" give 1200
C9_Witness ==
  /\ Resolved
  /\ Len(cameras) = 2
  /\ cameras[1].index = 1200
  /\ cameras[2].index = 55
  /\ device = <<"0">>
  /\ device_index = 1200

\* C10: with an empty catalog every selector, integer or not, fails with
\* NoDevicesFound and never with DeviceNotFound.
C10_EmptyCatalog ==
  (Resolved /\ cameras = <<>>) =>
    /\ error = "NoDevicesFound"
    /\ termination = "NoDevicesFound"
    /\ pc = "done"
    /\ device_index = 0 - 1

\* an integer selector and the empty catalog
C10_Witness ==
  /\ Resolved
  /\ cameras = <<>>
  /\ device = <<"0">>
  /\ error = "NoDevicesFound"

\* ------------------------------------------------------- the capture session
\* the frame counts echoed by "Recording stopped. Captured N frame(s)."
ReportedCounts ==
  {output[k].n :
     k \in {j \in 1..Len(output) :
              output[j].text = "Recording stopped. Captured"}}

\* the frame index read back from a file name
FileIndex(f) == BodyVal(SubSeq(f, 7, Len(f) - 4), 0)

\* C1: a session that opened the device has released it exactly once when
\* it terminates, however the loop ended; the handle is never released twice
\* and no frame is read after the release.
C1_ReleasedExactlyOnce ==
  /\ releases <= 1
  /\ ~read_after_release
  /\ (cap = "released") = (releases = 1)
  /\ (pc = "done" /\ cap \in {"opened", "released"})
       => (cap = "released" /\ releases = 1)

\* an error raised in the second iteration of the loop body
C1_Witness ==
  /\ pc = "done"
  /\ termination = "Error"
  /\ reads = 2
  /\ releases = 1

\* C2: at most one frame is persisted after the stop flag becomes true; a
\* frame in flight is completed and counted; once the loop-top check has seen
\* the flag the loop body is not entered again.
C2_AtMostOneFrameAfterStop ==
  /\ stop_recording => Len(files) <= stop_at + 1
  /\ termination = "OperatorStop"
       => /\ pc \in {"release", "report", "done"}
          /\ stop_recording
          /\ frame_count = Len(files)

\* the interrupt arrived after the loop-top check, around the acquisition,
\* and exactly one more frame was persisted and counted
C2_Witness ==
  /\ pc = "done"
  /\ termination = "OperatorStop"
  /\ stop_pc = "read"
  /\ Len(files) = stop_at + 1
  /\ frame_count = stop_at + 1

C4_ExitZeroIffOperatorStop ==
  pc = "done" => ((exit_code = 0) = (termination = "OperatorStop"))

C6_IndicesState ==
  /\ \A k \in 1..Len(files) : FileIndex(files[k]) = k - 1
  /\ \A a, b \in 1..Len(files) : a # b => files[a] # files[b]
  /\ frame_count \in {Len(files), Len(files) - 1}
  /\ frame_count = Len(files) - 1 => pc = "incr"
  /\ pc \in {"mkdir", "resolve", "signal", "open", "check_open", "banner"}
       => frame_count = 0 /\ files = <<>>

C6_CountStep ==
  /\ frame_count' \in {frame_count, frame_count + 1}
  /\ frame_count' = frame_count + 1
       => /\ files' = files
          /\ Len(files) = frame_count + 1
  /\ Len(files') \in {Len(files), Len(files) + 1}

C7_LexOrderIsCaptureOrder ==
  name_i # <<>> =>
    /\ fmt_i <= 999999
         => /\ Len(name_i) = 16
            /\ SubSeq(name_i, 1, 6) = <<"f", "r", "a", "m", "e", "_">>
            /\ \A k \in 7..12 : name_i[k] \in Digit
            /\ BodyVal(SubSeq(name_i, 7, 12), 0) = fmt_i
            /\ SubSeq(name_i, 13, 16) = <<".", "j", "p", "g">>
    /\ (fmt_i < fmt_j /\ fmt_j <= 999999) => LexLess(name_i, name_j)
    /\ (fmt_i <= 999999 /\ fmt_j <= 999999 /\ LexLess(name_i, name_j))
         => fmt_i < fmt_j

\* 99999 and 100000: the order holds only because of the padding
C7_Witness ==
  /\ fmt_i = 99999
  /\ fmt_j = 100000
  /\ name_i = <<"f", "r", "a", "m", "e", "_", "0", "9", "9", "9", "9", "9",
               ".", "j", "p", "g">>
  /\ LexLess(name_i, name_j)

\* ------------------------------------------------- resolve_device, continued
\* positions of the descriptors whose non-empty name contains the selector,
\* compared without regard to case
NameMatches ==
  {k \in 1..Len(cameras) :
     /\ cameras[k].name # <<>>
     /\ \E a \in 1..Len(cameras[k].name) :
          \E b \in (a - 1)..Len(cameras[k].name) :
            Lower(SubSeq(cameras[k].name, a, b)) = Lower(device)}

\* C11: for a non-empty catalog and a selector that is no integer, the result
\* is the device id of the first descriptor, in catalog order, whose non-empty
\* name contains the selector case-insensitively; with no such descriptor the
\* resolution fails with DeviceNotFound.
C11_FirstNameMatch ==
  (Resolved /\ cameras # <<>> /\ ~ParseInt(device).ok) =>
    IF NameMatches = {}
    THEN error = "DeviceNotFound" /\ pc = "done" /\ device_index = 0 - 1
    ELSE LET first == CHOOSE k \in NameMatches :
                        \A m \in NameMatches : k <= m
         IN error = "none" /\ device_index = cameras[first].index

\* "an" against [no name, "An"]: the nameless descriptor is skipped and the
\* match ignores case
C11_Witness ==
  /\ Resolved
  /\ Len(cameras) = 2
  /\ cameras[1] = Camera(0, <<>>)
  /\ cameras[2] = Camera(55, <<"A", "n">>)
  /\ device = <<"a", "n">>
  /\ device_index = 55

\* C19: for a non-empty catalog and an integer selector n that is no device
\* id and has n < 0 or n >= len(catalog), resolution fails with DeviceNotFound
\* and a message holding the selector as typed; a negative n is not counted
\* from the end and the names are not searched.
C19_IntegerOutOfRange ==
  (Resolved /\ cameras # <<>>) =>
    LET parsed == ParseInt(device)
    IN (/\ parsed.ok
        /\ \A k \in 1..Len(cameras) : cameras[k].index # parsed.val
        /\ (parsed.val < 0 \/ parsed.val >= Len(cameras)))
       => /\ error = "DeviceNotFound"
          /\ termination = "DeviceNotFound"
          /\ device_index = 0 - 1
          /\ Len(error_message) = Len(device) + 2
          /\ SubSeq(error_message, 2, Len(device) + 1) = device
          /\ error_message[1] = "Device '"

\* "3" is no id and no position, yet occurs in the name "b3"
C19_Witness ==
  /\ Resolved
  /\ cameras = <<Camera(0, <<"b", "3">>)>>
  /\ device = <<"3">>
  /\ error = "DeviceNotFound"
  /\ NameMatches # {}

\* ------------------------------------------------ start(): the early exits
\* C12: with a negative interval a usage error is reported at once and no
\* session exists: no output directory, no opened device, no frame acquired
\* or persisted.
C12_NegativeIntervalRejected ==
  interval < 0 =>
    /\ ~dir_created
    /\ cap = "none"
    /\ reads = 0
    /\ files = <<>>
    /\ pc = "done" => error = "UsageError"

\* C13: when the device cannot be opened the capture loop is never entered:
\* no frame is acquired or persisted, frame_count stays 0 and the process
\* exits with a nonzero code.
C13_OpenFailureNeverRecords ==
  cap = "failed" =>
    /\ pc \in {"check_open", "done"}
    /\ reads = 0
    /\ files = <<>>
    /\ frame_count = 0
    /\ live = 0 - 1
    /\ pc = "done" => (exit_code = 1 /\ termination = "DeviceOpenFailure")

\* the process has ended on the open failure
C13_Witness ==
  /\ pc = "done"
  /\ cap = "failed"
  /\ exit_code = 1
  /\ output[Len(output)].text = "Error: Could not open device"

\* C14 as stated: every exit that follows the open attempt, the one taken
\* when the device fails to open included, has released the handle exactly
\* once.
C14_ReleasedAfterEveryOpenAttempt ==
  (pc = "done" /\ cap # "none") => releases = 1

\* C14 amended: the release is guaranteed on every exit that follows a
\* successful open; on the exit taken when the device fails to open, release
\* is not called at all.
C14_ReleasedIffOpened ==
  pc = "done" =>
    /\ cap = "failed" => releases = 0
    /\ termination \in {"OperatorStop", "CaptureFailure", "Error"}
         => (releases = 1 /\ cap = "released")
    /\ releases = 1 => cap = "released"
    /\ releases <= 1

\* the early exit: the open attempt failed and release was never called
C14_Witness ==
  /\ pc = "done"
  /\ termination = "DeviceOpenFailure"
  /\ cap = "failed"
  /\ releases = 0

\* ------------------------------------------------------ the stop request
\* a step in which the installed handler ran
HandlerStep == handler_installed /\ interrupts' = interrupts + 1

\* C15: the stop flag only ever goes from false to true; no step of the
\* loop, of the handler or of termination sets it back.
C15_StopFlagMonotone == [][stop_recording => stop_recording']_vars

\* two interrupts were handled and the run has ended, the flag still set
C15_Witness ==
  /\ pc = "done"
  /\ interrupts = 2
  /\ stop_recording
  /\ termination = "OperatorStop"

\* C16 as stated: the handler leaves frame_count, the device handle, the
\* persisted files, the termination reason and the terminal output unchanged.
C16_HandlerOnlySetsFlag ==
  [][HandlerStep =>
       UNCHANGED <<frame_count, cap, releases, files, termination,
                   output>>]_vars

\* C16 amended: the handler sets the flag and echoes one line,
\* "Stopping recording..."; frame_count, the device handle, the persisted
\* files, the termination reason and the position of the loop are unchanged.
C16_HandlerSetsFlagAndEchoes ==
  [][HandlerStep =>
       /\ stop_recording'
       /\ output' = Append(output, Line("Stopping recording...", 0 - 1))
       /\ UNCHANGED <<pc, frame_count, cap, releases, reads, files,
                      termination, exit_code, live, ret, raised,
                      device_index, dir_created>>]_vars

\* the handler ran while a frame was being written
C16_Witness ==
  /\ stop_recording
  /\ stop_pc = "imwrite"
  /\ pc = "imwrite"
  /\ cap = "opened"
  /\ output[Len(output)].text = "Stopping recording..."

\* C17: the termination reason is set once and then kept; a failed read ends
\* the session as CaptureFailure also when the stop flag was set around that
\* read; OperatorStop means the loop-top check saw the flag and no read had
\* failed.
C17_ReasonState ==
  /\ ~ret => \/ termination = "CaptureFailure"
             \/ termination = "None" /\ pc = "check_ret"
  /\ termination = "OperatorStop" => (ret /\ stop_recording)
  /\ termination = "CaptureFailure" => ~ret
  /\ (pc = "done") = (termination # "None" /\ pc \notin {"release", "report"})

C17_ReasonSetOnce ==
  /\ []C17_ReasonState
  /\ [][termination # "None" => termination' = termination]_vars

\* the interrupt arrived while the failing read was under way
C17_Witness ==
  /\ pc = "done"
  /\ ~ret
  /\ stop_recording
  /\ stop_pc = "read"
  /\ stop_at = Len(files)
  /\ termination = "CaptureFailure"

\* C20: when the interrupt is handled after the handler was installed and
\* before the first loop-top check, and the device opens, the loop body is
\* never entered: no frame is acquired or persisted, the handle is released
\* exactly once and the reported count is 0.
C20_StopBeforeFirstCheck ==
  (\/ stop_pc \in {"open", "check_open", "banner"}
   \/ stop_pc = "loop_top" /\ stop_at = 0)
  => /\ reads = 0
     /\ files = <<>>
     /\ frame_count = 0
     /\ pc \notin {"read", "check_ret", "imwrite", "incr", "update", "sleep"}
     /\ (pc = "done" /\ cap # "failed")
          => /\ termination = "OperatorStop"
             /\ cap = "released"
             /\ releases = 1
             /\ ReportedCounts = {0}

\* interrupted while the device was being opened; the run has ended
C20_Witness ==
  /\ pc = "done"
  /\ stop_pc = "open"
  /\ cap = "released"
  /\ releases = 1
  /\ reads = 0
  /\ ReportedCounts = {0}

\* --------------------------------------------------------------- liveness
\* the steps of the single thread that runs start(); each call it makes
\* returns, so the thread always takes its next step
ProgramStep ==
  \/ Mkdir
  \/ StartResolve
  \/ InstallHandler
  \/ Open
  \/ CheckOpen
  \/ Banner
  \/ LoopTop
  \/ Read
  \/ CheckRet
  \/ Imwrite
  \/ Incr
  \/ Update
  \/ Sleep
  \/ Release
  \/ Report

SpecLive == Init /\ [][Next]_vars /\ WF_vars(ProgramStep)

Recording ==
  pc \in {"loop_top", "read", "check_ret", "imwrite", "incr", "update",
          "sleep"}

\* C18: in a recording session, once the stop flag is set and every call in
\* progress returns, the session ends with the handle released and the frame
\* count reported.
C18_StopLeadsToTermination ==
  (Recording /\ stop_recording)
    ~> (/\ pc = "done"
        /\ cap = "released"
        /\ releases = 1
        /\ ReportedCounts = {frame_count})

\* the flag was set during the interval wait and the session has ended by
\* operator stop
C18_Witness ==
  /\ pc = "done"
  /\ stop_pc = "sleep"
  /\ termination = "OperatorStop"
  /\ cap = "released"
  /\ ReportedCounts = {frame_count}
====
